---- MODULE Spec2Model ----
(***************************************************************************)
(* Booking ledger of the Annisse cat-boarding data layer (src/Datalayer.ts)*)
(* as a state machine over the localStorage keys it reads and writes.      *)
(*                                                                         *)
(* Values.  A stored record is a function from field names to values; a   *)
(* field that is undefined in JavaScript is absent from the DOMAIN (JSON   *)
(* drops it).  Calendar dates "YYYY-MM-DD" are day numbers 1, 2, ... (the  *)
(* string order of well-formed ISO dates is the order of the days); the    *)
(* empty/missing date is 0, which is falsy like "" and undefined.  A cat   *)
(* count is an integer; 0 stands for every falsy number (0, NaN).  Fields  *)
(* no function reads (source, createdAt, names, phone, note, ...) are      *)
(* carried by the spreads with the others and are left out.                *)
(***************************************************************************)
EXTENDS Integers, Sequences, FiniteSets, TLC

VARIABLES
    storage,     \* the storage substrate: [window |-> whether window.localStorage exists,
                 \*   full |-> the keys whose setItem throws at present (quota)]
    bookings,    \* parsed value under BOOKING_KEY (absent key = empty array)
    checkins,    \* parsed value under CHECKIN_KEY
    cages,       \* parsed value under CAGE_KEY
    profile,     \* value under PROFILE_KEY: <<>> when absent, <<p>> when stored
    clock,       \* ids issued so far, per prefix (newId never repeats an id)
    tasks,       \* the async calls in flight: each has run up to an await and holds
                 \* what its continuation will use
    conv,        \* history: <<i, j>> when checkins[j] was created from stored bookings[i]
    savedFor,    \* history: the profile last passed to saveKennelProfile, per profile id
    out,         \* history: the positions in checkins of the stays checkOutCheckin checked out
    last         \* history: the last call.  Lifecycle specification: [op |-> its name,
                 \* overrides |-> its overrides] when it was createCheckinFromBooking,
                 \* op "other" otherwise.  Lookup specification: [op |-> its name,
                 \* id |-> the id passed] when no record has the id.  Storage
                 \* specification: [op |-> its name, full |-> storage.full at the call]
                 \* when it was createCheckinFromBooking

vars == <<storage, bookings, checkins, cages, profile, clock, tasks, conv, savedFor, out, last>>

(***************************************************************************)
(* Program constants                                                       *)
(***************************************************************************)
BOOKING_KEY == "annisse_bookings_v2"

CHECKIN_KEY == "annisse_checkins_v2"

CAGE_KEY == "annisse_cages_v1"

PROFILE_KEY == "annisse_profile_v1"

StorageKeys == {BOOKING_KEY, CHECKIN_KEY, CAGE_KEY, PROFILE_KEY}

KENNEL_ID == "annisse-001"

FIXED_DAILY_CAPACITY == 6

Null == "null"

(***************************************************************************)
(* Bounds of the model                                                     *)
(***************************************************************************)
MaxBookings == 2      \* stored bookings, lifecycle specification

MaxCheckins == 2      \* stored stays, lifecycle specification

CapBookings == 2      \* stored bookings, capacity specification

LastDay == 4          \* queries range over the days 1..LastDay

LkBookings == 1       \* stored bookings, lookup specification

LkCheckins == 1       \* stored stays, lookup specification

StIds == 1            \* ids newId issues per prefix, storage specification

AsRecords == 1        \* stored bookings and stays, async specification

AsTasks == 2          \* async calls in flight at a time, async specification

GtBookings == 2       \* stored bookings, gate specification

TnBookings == 2       \* stored bookings, tenant specification

MaxCages == 3         \* stored cages, cage specification

MaxCageIds == 2       \* cage ids newId issues, cage specification

Days == 1..LastDay

OtherKennel == "other-002"

Kennels == {KENNEL_ID, OtherKennel}

(***************************************************************************)
(* JavaScript helpers                                                      *)
(***************************************************************************)
\* { ...a, ...b }
Spread(a, b) ==
    [f \in (DOMAIN a) \cup (DOMAIN b) |-> IF f \in DOMAIN b THEN b[f] ELSE a[f]]

\* all.findIndex(x => x.id === id); 0 stands for -1
FindIndex(all, id) ==
    IF \E i \in 1..Len(all) : all[i].id = id
    THEN CHOOSE i \in 1..Len(all) :
            /\ all[i].id = id
            /\ \A j \in 1..(i - 1) : all[j].id # id
    ELSE 0

isBrowser == storage.window

\* loadArray(key): the stored array, [] without a window or a stored value
LoadArray(stored) == IF ~isBrowser THEN <<>> ELSE stored

\* Faulty variant of SaveArray: a write that throws leaves the key empty
SaveArrayClearing(key, stored, value) ==
    IF ~isBrowser THEN stored
    ELSE IF key \in storage.full THEN <<>>
    ELSE value

\* saveArray(key, value): what the key holds afterwards; without a window
\* nothing is written, and a setItem that throws is caught and ignored
SaveArray(key, stored, value) ==
    IF ~isBrowser THEN stored
    ELSE IF key \in storage.full THEN stored
    ELSE value

\* newId(prefix)
newId(prefix) == <<prefix, clock[prefix] + 1>>

(***************************************************************************)
(* Number(s) on the strings the owner form can submit: the numeric value   *)
(* of a decimal literal, 0 for the empty string, NaN for anything else.    *)
(***************************************************************************)
JsNumber(s) ==
    CASE s = ""    -> [nan |-> FALSE, n |-> 0]
      [] s = "0"   -> [nan |-> FALSE, n |-> 0]
      [] s = "1"   -> [nan |-> FALSE, n |-> 1]
      [] s = "2"   -> [nan |-> FALSE, n |-> 2]
      [] s = "4"   -> [nan |-> FALSE, n |-> 4]
      [] s = "-3"  -> [nan |-> FALSE, n |-> -3]
      [] OTHER     -> [nan |-> TRUE, n |-> 0]

\* Number(payload.catCount || "1") || 1
CoerceCount(s) ==
    LET v == JsNumber(IF s = "" THEN "1" ELSE s)
    IN  IF v.nan \/ v.n = 0 THEN 1 ELSE v.n

(***************************************************************************)
(* Booking API                                                             *)
(***************************************************************************)
\* createBooking(kennelId, data); data may carry status and catCount
CreateBooking(kennelId, data) ==
    LET all == LoadArray(bookings)
        record == Spread([id |-> newId("b"),
                          kennelId |-> kennelId,
                          status |-> IF "status" \in DOMAIN data
                                     THEN data.status ELSE "pending"],
                         data)
    IN  /\ bookings' = SaveArray(BOOKING_KEY, bookings, Append(all, record))
        /\ clock' = [clock EXCEPT !["b"] = @ + 1]
        /\ UNCHANGED <<storage, checkins, cages, profile>>

\* updateBooking(record): merge by id, push when no stored booking has the id
UpdateBooking(record) ==
    LET all == LoadArray(bookings)
        idx == FindIndex(all, record.id)
        next == IF idx > 0
                THEN [all EXCEPT ![idx] = Spread(all[idx], record)]
                ELSE Append(all, record)
    IN  /\ bookings' = SaveArray(BOOKING_KEY, bookings, next)
        /\ UNCHANGED <<storage, checkins, cages, profile, clock>>

\* Faulty variant of StatusSet: the status is written to every stored booking
StatusSetEvery(all, id, status) ==
    IF FindIndex(all, id) = 0 THEN all
    ELSE [i \in 1..Len(all) |-> Spread(all[i], [status |-> status])]

\* The array setBookingStatus writes back (unchanged when no booking has the id)
StatusSet(all, id, status) ==
    LET idx == FindIndex(all, id)
    IN  IF idx = 0 THEN all
        ELSE [all EXCEPT ![idx] = Spread(all[idx], [status |-> status])]

\* setBookingStatus(id, status)
SetBookingStatus(id, status) ==
    LET all == LoadArray(bookings)
        idx == FindIndex(all, id)
        next == StatusSet(all, id, status)
    IN  /\ bookings' = IF idx = 0 THEN bookings ELSE SaveArray(BOOKING_KEY, bookings, next)
        /\ UNCHANGED <<storage, checkins, cages, profile, clock>>

\* what setBookingStatus(id, status) returns: null, or the stored record
\* with the new status
SetBookingStatusReturn(id, status) ==
    LET all == LoadArray(bookings)
        idx == FindIndex(all, id)
    IN  IF idx = 0 THEN Null ELSE StatusSet(all, id, status)[idx]

\* acceptBooking(id)
AcceptBooking(id) == SetBookingStatus(id, "precheck")

AcceptBookingReturn(id) == SetBookingStatusReturn(id, "precheck")

\* Faulty variant of CancelBooking: the cancelled booking is removed
CancelBookingRemoves(id) ==
    LET keep(b) == b.id # id
    IN  /\ bookings' = SaveArray(BOOKING_KEY, bookings, SelectSeq(LoadArray(bookings), keep))
        /\ UNCHANGED <<storage, checkins, cages, profile, clock>>

\* cancelBooking(id)
CancelBooking(id) == SetBookingStatus(id, "cancelled")

\* createBookingRequest(payload, kennelId = KENNEL_ID)
CreateBookingRequest(payload, kennelId) ==
    LET all == LoadArray(bookings)
        record == [id |-> newId("b"),
                   kennelId |-> kennelId,
                   status |-> "pending",
                   checkIn |-> payload.checkIn,
                   checkOut |-> payload.checkOut,
                   catCount |-> CoerceCount(payload.catCount)]
    IN  /\ bookings' = SaveArray(BOOKING_KEY, bookings, Append(all, record))
        /\ clock' = [clock EXCEPT !["b"] = @ + 1]
        /\ UNCHANGED <<storage, checkins, cages, profile>>

CancelBookingReturn(id) == SetBookingStatusReturn(id, "cancelled")

(***************************************************************************)
(* Check-in / stay API                                                     *)
(***************************************************************************)
\* Faulty variant of CheckinRecord: the overrides are spread before the forced fields
CheckinRecordForced(booking, overrides) ==
    Spread(Spread(booking, overrides),
           [id |-> newId("c"), status |-> "checked_in", cageId |-> Null])

\* The stay record createCheckinFromBooking builds
CheckinRecord(booking, overrides) ==
    Spread(Spread(booking, [id |-> newId("c"),
                            status |-> "checked_in",
                            cageId |-> Null]),
           overrides)

\* Faulty variant of CreateCheckinFromBooking: only the stay is written
\* before the call first yields
CreateCheckinStayFirst(booking, overrides) ==
    LET all == LoadArray(checkins)
        record == CheckinRecord(booking, overrides)
    IN  /\ checkins' = SaveArray(CHECKIN_KEY, checkins, Append(all, record))
        /\ clock' = [clock EXCEPT !["c"] = @ + 1]
        /\ UNCHANGED <<storage, bookings, cages, profile>>

\* createCheckinFromBooking(booking, overrides = {}): the stay is written,
\* then setBookingStatus(booking.id, "converted") runs before the call returns
CreateCheckinFromBooking(booking, overrides) ==
    LET all == LoadArray(checkins)
        record == CheckinRecord(booking, overrides)
        stays == SaveArray(CHECKIN_KEY, checkins, Append(all, record))
        ball == LoadArray(bookings)
        idx == FindIndex(ball, booking.id)
    IN  /\ checkins' = stays
        /\ bookings' = IF idx = 0 THEN bookings
                       ELSE SaveArray(BOOKING_KEY, bookings, StatusSet(ball, booking.id, "converted"))
        /\ clock' = [clock EXCEPT !["c"] = @ + 1]
        /\ UNCHANGED <<storage, cages, profile>>

\* updateCheckin(record)
UpdateCheckin(record) ==
    LET all == LoadArray(checkins)
        idx == FindIndex(all, record.id)
        next == IF idx > 0
                THEN [all EXCEPT ![idx] = Spread(all[idx], record)]
                ELSE Append(all, record)
    IN  /\ checkins' = SaveArray(CHECKIN_KEY, checkins, next)
        /\ UNCHANGED <<storage, bookings, cages, profile, clock>>

\* checkOutCheckin(id)
CheckOutCheckin(id) ==
    LET all == LoadArray(checkins)
        idx == FindIndex(all, id)
    IN  /\ checkins' = IF idx = 0 THEN checkins
                       ELSE SaveArray(CHECKIN_KEY, checkins,
                                [all EXCEPT ![idx] = Spread(all[idx], [status |-> "checked_out"])])
        /\ UNCHANGED <<storage, bookings, cages, profile, clock>>

\* what checkOutCheckin(id) returns (Promise<void>)
CheckOutCheckinReturn(id) == "undefined"

\* Faulty variant of AssignCageToCheckin: a stay that is not found is added
AssignCageToCheckinUpsert(checkinId, cageId) ==
    LET all == LoadArray(checkins)
        idx == FindIndex(all, checkinId)
        next == IF idx = 0 THEN Append(all, [id |-> checkinId, cageId |-> cageId])
                ELSE [all EXCEPT ![idx] = Spread(all[idx], [cageId |-> cageId])]
    IN  /\ checkins' = SaveArray(CHECKIN_KEY, checkins, next)
        /\ UNCHANGED <<storage, bookings, cages, profile, clock>>

\* assignCageToCheckin(checkinId, cageId)
AssignCageToCheckin(checkinId, cageId) ==
    LET all == LoadArray(checkins)
        idx == FindIndex(all, checkinId)
        next == IF idx = 0 THEN all
                ELSE [all EXCEPT ![idx] = Spread(all[idx], [cageId |-> cageId])]
    IN  /\ checkins' = IF idx = 0 THEN checkins ELSE SaveArray(CHECKIN_KEY, checkins, next)
        /\ UNCHANGED <<storage, bookings, cages, profile, clock>>

\* what assignCageToCheckin(checkinId, cageId) returns: null, or the stored
\* stay with the cage
AssignCageToCheckinReturn(checkinId, cageId) ==
    LET all == LoadArray(checkins)
        idx == FindIndex(all, checkinId)
    IN  IF idx = 0 THEN Null ELSE Spread(all[idx], [cageId |-> cageId])

(***************************************************************************)
(* Cage API.  A cage argument is a function from the fields it sets to     *)
(* their values (name, size, ... and possibly id).                         *)
(***************************************************************************)
\* listCagesForKennel(kennelId) over the loaded array
listCagesForKennel(all, kennelId) ==
    LET keep(c) == c.kennelId = kennelId
    IN  SelectSeq(all, keep)

\* the fields of the cage argument other than id that upsertCage copies into
\* a created cage (name, size, location, note); undefined ones are not stored
CreatedFields(cage) ==
    [f \in (DOMAIN cage) \cap {"name", "size", "location", "note"} |-> cage[f]]

\* upsertCage(kennelId, cage)
UpsertCage(kennelId, cage) ==
    LET all == LoadArray(cages)
    IN  IF "id" \in DOMAIN cage
        THEN LET idx == FindIndex(all, cage.id)
                 base == IF idx > 0 THEN all[idx]
                         ELSE Spread([id |-> cage.id, kennelId |-> kennelId],
                                     [f \in (DOMAIN cage) \cap {"name"} |-> cage[f]])
                 updated == Spread(Spread(base, cage), [kennelId |-> kennelId])
                 next == IF idx > 0 THEN [all EXCEPT ![idx] = updated]
                         ELSE Append(all, updated)
             IN  /\ cages' = SaveArray(CAGE_KEY, cages, next)
                 /\ UNCHANGED <<storage, bookings, checkins, profile, clock>>
        ELSE LET created == Spread([id |-> newId("g"), kennelId |-> kennelId],
                                   CreatedFields(cage))
             IN  /\ cages' = SaveArray(CAGE_KEY, cages, Append(all, created))
                 /\ clock' = [clock EXCEPT !["g"] = @ + 1]
                 /\ UNCHANGED <<storage, bookings, checkins, profile>>

\* deleteCage(kennelId, cageId)
DeleteCage(kennelId, cageId) ==
    LET keep(c) == ~(c.kennelId = kennelId /\ c.id = cageId)
        all == SelectSeq(LoadArray(cages), keep)
    IN  /\ cages' = SaveArray(CAGE_KEY, cages, all)
        /\ UNCHANGED <<storage, bookings, checkins, profile, clock>>

(***************************************************************************)
(* Capacity calculator                                                     *)
(*                                                                         *)
(* eachDay walks JavaScript Dates.  new Date("YYYY-MM-DD") is midnight UTC *)
(* of that day, getDate/setDate work in the host's local time, and         *)
(* toISOString prints the UTC day.  Instants are hours since the model's   *)
(* epoch (day n starts at 24 * n); a host time zone is its standard offset *)
(* from UTC and, when it observes daylight saving, the instant the clocks  *)
(* go forward by one hour.                                                 *)
(***************************************************************************)
ZoneUTC == [name |-> "UTC", std |-> 0, dst |-> FALSE, from |-> 0]

\* Europe/Copenhagen: UTC+1, clocks go forward at 01:00 UTC on day 3
ZoneCopenhagen == [name |-> "Europe/Copenhagen", std |-> 1, dst |-> TRUE, from |-> 24 * 3 + 1]

HostZones == {ZoneUTC, ZoneCopenhagen}

\* new Date(iso).getTime(); the missing date 0 gives NaN, here -1
DateOf(iso) == IF iso >= 1 THEN 24 * iso ELSE -1

\* d.setDate(d.getDate() + 1): same local wall-clock time on the next local day
NextLocalDay(zone, t) ==
    LET off == zone.std + (IF zone.dst /\ t >= zone.from THEN 1 ELSE 0)
        wall == t + off + 24
    IN  IF zone.dst /\ wall - zone.std - 1 >= zone.from
        THEN wall - zone.std - 1
        ELSE wall - zone.std

RECURSIVE EachDayFrom(_, _, _)
\* the while loop of eachDay: d.toISOString().slice(0, 10) is the UTC day of d
EachDayFrom(zone, d, end) ==
    IF d <= end
    THEN <<d \div 24>> \o EachDayFrom(zone, NextLocalDay(zone, d), end)
    ELSE <<>>

\* eachDay(startIso, endIso)
eachDay(zone, startIso, endIso) ==
    IF DateOf(startIso) < 0 \/ DateOf(endIso) < 0 THEN <<>>
    ELSE EachDayFrom(zone, DateOf(startIso), DateOf(endIso))

\* b.status ?? "pending"
StatusOf(b) == IF "status" \in DOMAIN b THEN b.status ELSE "pending"

\* listBookingsForKennel(kennelId) over the loaded array
listBookingsForKennel(all, kennelId) ==
    LET mapped == [i \in 1..Len(all) |-> Spread(all[i], [status |-> StatusOf(all[i])])]
        keep(b) == kennelId = "" \/ b.kennelId = kennelId
    IN  SelectSeq(mapped, keep)

\* Faulty variant of listCheckinsForKennel: the stays of every tenant
listCheckinsForAll(all, kennelId) == all

\* listCheckinsForKennel(kennelId) over the loaded array
listCheckinsForKennel(all, kennelId) ==
    LET keep(c) == kennelId = "" \/ c.kennelId = kennelId
    IN  SelectSeq(all, keep)

\* Faulty variant of overlapsDay: the check-out day is counted
overlapsDayInclusive(startIso, endIso, dayIso) ==
    IF startIso = 0 \/ endIso = 0 THEN FALSE
    ELSE startIso <= dayIso /\ dayIso <= endIso

\* overlapsDay(startIso, endIso, dayIso)
overlapsDay(startIso, endIso, dayIso) ==
    IF startIso = 0 \/ endIso = 0 THEN FALSE
    ELSE startIso <= dayIso /\ dayIso < endIso

\* x.catCount || 1
CountOf(x) == IF "catCount" \in DOMAIN x /\ x.catCount # 0 THEN x.catCount ELSE 1

\* Faulty variant of StayCount: the status of the stay is not looked at
StayCountAnyStatus(stay, date) ==
    IF overlapsDay(stay.checkIn, stay.checkOut, date) THEN CountOf(stay) ELSE 0

\* what one stay adds to `booked` on a day (first loop of getCapacityForRange)
StayCount(stay, date) ==
    IF stay.status = "checked_out" \/ stay.status = "checkedOut" THEN 0
    ELSE IF overlapsDay(stay.checkIn, stay.checkOut, date) THEN CountOf(stay)
    ELSE 0

\* what one booking adds to `booked` on a day (second loop)
BookingCount(b, date) ==
    IF StatusOf(b) # "precheck" THEN 0
    ELSE IF overlapsDay(b.checkIn, b.checkOut, date) THEN CountOf(b)
    ELSE 0

RECURSIVE SumStays(_, _)
SumStays(stays, date) ==
    IF stays = <<>> THEN 0
    ELSE StayCount(Head(stays), date) + SumStays(Tail(stays), date)

RECURSIVE SumBookings(_, _)
SumBookings(bs, date) ==
    IF bs = <<>> THEN 0
    ELSE BookingCount(Head(bs), date) + SumBookings(Tail(bs), date)

\* `booked` after both loops, before the cap
BookedSum(bs, stays, date) == SumStays(stays, date) + SumBookings(bs, date)

Min(a, b) == IF a <= b THEN a ELSE b

Max(a, b) == IF a >= b THEN a ELSE b

\* the CapacityDay built for one date
CapacityDay(bs, stays, date) ==
    LET capacityPerDay == FIXED_DAILY_CAPACITY
        cappedBooked == Min(BookedSum(bs, stays, date), capacityPerDay)
    IN  [date |-> date,
         booked |-> cappedBooked,
         capacity |-> capacityPerDay,
         free |-> Max(0, capacityPerDay - cappedBooked)]

\* getCapacityForRange over given stored arrays
CapacityOver(ball, call, zone, kennelId, startDateIso, endDateIso) ==
    LET bs == listBookingsForKennel(ball, kennelId)
        stays == listCheckinsForKennel(call, kennelId)
        dates == eachDay(zone, startDateIso, endDateIso)
    IN  [i \in 1..Len(dates) |-> CapacityDay(bs, stays, dates[i])]

\* getCapacityForRange(kennelId, startDateIso, endDateIso) on a host in `zone`
getCapacityForRange(zone, kennelId, startDateIso, endDateIso) ==
    CapacityOver(LoadArray(bookings), LoadArray(checkins),
                 zone, kennelId, startDateIso, endDateIso)

\* Faulty variant of hasCapacityForBooking: a free place is enough, whatever
\* the number of cats
hasCapacityAnyFree(zone, kennelId, booking) ==
    IF booking.checkIn = 0 \/ booking.checkOut = 0 THEN FALSE
    ELSE LET days == getCapacityForRange(zone, kennelId, booking.checkIn, booking.checkOut)
         IN  \A i \in 1..Len(days) : days[i].booked < days[i].capacity

\* hasCapacityForBooking(kennelId, booking) on a host in `zone`
hasCapacityForBooking(zone, kennelId, booking) ==
    IF booking.checkIn = 0 \/ booking.checkOut = 0 THEN FALSE
    ELSE LET days == getCapacityForRange(zone, kennelId, booking.checkIn, booking.checkOut)
             needed == CountOf(booking)
         IN  \A i \in 1..Len(days) : days[i].booked + needed <= days[i].capacity

(***************************************************************************)
(* Profile API.  A profile is a function from the fields it sets to their  *)
(* values; strings stand for themselves and a number is written as its     *)
(* JavaScript literal ("325", "NaN").  The value under PROFILE_KEY is the   *)
(* JSON text of the object, modelled by the object JSON.parse gives back.  *)
(***************************************************************************)
DEFAULT_PROFILE ==
    [id |-> KENNEL_ID,
     name |-> "Annisse Kattepension",
     tagline |-> "Luksurioes, familiedrevet kattepension",
     nightlyRate |-> "325",
     city |-> "Annisse"]

NumberFields == {"nightlyRate"}

\* JSON.parse(JSON.stringify(value)) of one field: a number that is not finite
\* is written as null
JsonValue(field, value) ==
    IF field \in NumberFields /\ value \in {"NaN", "Infinity", "-Infinity"}
    THEN Null
    ELSE value

\* JSON.parse(JSON.stringify(obj))
JsonObject(obj) == [f \in DOMAIN obj |-> JsonValue(f, obj[f])]

\* loadObject(PROFILE_KEY, null): <<>> is null
LoadObject(stored) == IF ~isBrowser THEN <<>> ELSE stored

\* saveObject(PROFILE_KEY, value): what the key holds afterwards
SaveObject(key, stored, value) ==
    IF ~isBrowser THEN stored
    ELSE IF key \in storage.full THEN stored
    ELSE <<JsonObject(value)>>

\* Faulty variant of loadKennelProfile: the defaults are spread over the stored profile
loadKennelProfileDefaultsWin(kennelId) ==
    LET stored == LoadObject(profile)
    IN  IF stored = <<>> THEN DEFAULT_PROFILE
        ELSE IF stored[1].id # kennelId THEN DEFAULT_PROFILE
        ELSE Spread(stored[1], DEFAULT_PROFILE)

\* loadKennelProfile(kennelId)
loadKennelProfile(kennelId) ==
    LET stored == LoadObject(profile)
    IN  IF stored = <<>> THEN DEFAULT_PROFILE
        ELSE IF stored[1].id # kennelId THEN DEFAULT_PROFILE
        ELSE Spread(DEFAULT_PROFILE, stored[1])

\* saveKennelProfile(profile)
SaveKennelProfile(p) ==
    /\ profile' = SaveObject(PROFILE_KEY, profile, p)
    /\ UNCHANGED <<storage, bookings, checkins, cages, clock>>

(***************************************************************************)
(* Specifications                                                          *)
(*                                                                         *)
(* conv, savedFor, out and last are history variables: no code reads them. *)
(* The program's actions above leave them out; each step of a              *)
(* specification says what it records.  Except in the async specification  *)
(* every call is awaited before the next one starts, so no call is in      *)
(* flight between two steps.                                               *)
(***************************************************************************)
Init ==
    /\ storage = [window |-> TRUE, full |-> {}]
    /\ bookings = <<>>
    /\ checkins = <<>>
    /\ cages = <<>>
    /\ profile = <<>>
    /\ clock = [prefix \in {"b", "c", "g"} |-> 0]
    /\ tasks = {}
    /\ conv = {}
    /\ savedFor = <<>>
    /\ out = {}
    /\ last = [op |-> "none", overrides |-> <<>>]

NoHistory == UNCHANGED <<tasks, conv, savedFor, out, last>>

\* a step of the lifecycle specification records the call
Called(op, overrides) ==
    /\ last' = IF op = "createCheckinFromBooking"
               THEN [op |-> op, overrides |-> overrides]
               ELSE [op |-> "other", overrides |-> <<>>]
    /\ UNCHANGED <<tasks, conv, savedFor, out>>

\* an id no stored record has
UnknownId == <<"x", 0>>

StoredBookingIds == {bookings[i].id : i \in 1..Len(bookings)}

StoredCheckinIds == {checkins[i].id : i \in 1..Len(checkins)}

\* the overrides argument of createCheckinFromBooking left out (= {})
NoOverrides == <<>>

(***************************************************************************)
(* Lifecycle specification: every exported booking and stay operation, on  *)
(* one tenant and one date range.                                          *)
(***************************************************************************)
BookingStatuses == {"pending", "precheck", "converted", "cancelled"}

StayStatuses == {"checked_in", "checked_out"}

CageIds == {Null, "g1"}

\* what the internal form submits
FormData == {[checkIn |-> 2, checkOut |-> 4, catCount |-> 4]}

\* what the owner form submits
OwnerPayloads == {[checkIn |-> 2, checkOut |-> 4, catCount |-> "4"]}

\* a record the caller holds that was never stored
UnsavedBooking ==
    [id |-> UnknownId, kennelId |-> KENNEL_ID, status |-> "precheck",
     checkIn |-> 2, checkOut |-> 4, catCount |-> 4]

OverridesArgs ==
    {NoOverrides, [status |-> "checked_out", cageId |-> "g1"], [id |-> <<"c", 1>>]}

\* booking objects a caller can pass: a stored booking as loaded, or an unsaved one
BookingArgs == {bookings[i] : i \in 1..Len(bookings)} \cup {UnsavedBooking}

DoCreateBooking ==
    \E data \in FormData :
        /\ Len(bookings) < MaxBookings
        /\ CreateBooking(KENNEL_ID, data)
        /\ Called("createBooking", NoOverrides)

DoCreateBookingRequest ==
    \E payload \in OwnerPayloads :
        /\ Len(bookings) < MaxBookings
        /\ CreateBookingRequest(payload, KENNEL_ID)
        /\ Called("createBookingRequest", NoOverrides)

\* an edited copy of a stored booking saved back, or an unsaved record saved
DoUpdateBooking ==
    \/ \E i \in 1..Len(bookings), st \in BookingStatuses :
            /\ UpdateBooking(Spread(bookings[i], [status |-> st]))
            /\ Called("updateBooking", NoOverrides)
    \/ /\ Len(bookings) < MaxBookings
       /\ UnknownId \notin StoredBookingIds
       /\ UpdateBooking(UnsavedBooking)
       /\ Called("updateBooking", NoOverrides)

DoSetBookingStatus ==
    \E id \in StoredBookingIds \cup {UnknownId}, st \in BookingStatuses :
        /\ SetBookingStatus(id, st)
        /\ Called("setBookingStatus", NoOverrides)

DoAcceptBooking ==
    \E id \in StoredBookingIds \cup {UnknownId} :
        /\ AcceptBooking(id)
        /\ Called("acceptBooking", NoOverrides)

DoCancelBooking ==
    \E id \in StoredBookingIds \cup {UnknownId} :
        /\ CancelBooking(id)
        /\ Called("cancelBooking", NoOverrides)

DoCreateCheckinFromBooking ==
    \E booking \in BookingArgs, overrides \in OverridesArgs :
        /\ Len(checkins) < MaxCheckins
        /\ CreateCheckinFromBooking(booking, overrides)
        /\ Called("createCheckinFromBooking", overrides)

DoUpdateCheckin ==
    \E i \in 1..Len(checkins), st \in StayStatuses :
        /\ UpdateCheckin(Spread(checkins[i], [status |-> st]))
        /\ Called("updateCheckin", NoOverrides)

DoCheckOutCheckin ==
    \E id \in StoredCheckinIds \cup {UnknownId} :
        /\ CheckOutCheckin(id)
        /\ Called("checkOutCheckin", NoOverrides)

DoAssignCageToCheckin ==
    \E id \in StoredCheckinIds \cup {UnknownId}, cageId \in CageIds :
        /\ AssignCageToCheckin(id, cageId)
        /\ Called("assignCageToCheckin", NoOverrides)

Next ==
    \/ DoCreateBooking
    \/ DoCreateBookingRequest
    \/ DoUpdateBooking
    \/ DoSetBookingStatus
    \/ DoAcceptBooking
    \/ DoCancelBooking
    \/ DoCreateCheckinFromBooking
    \/ DoUpdateCheckin
    \/ DoCheckOutCheckin
    \/ DoAssignCageToCheckin

Spec == Init /\ [][Next]_vars

(***************************************************************************)
(* Capacity specification: two tenants, several date ranges and cat        *)
(* counts, under the operations of the normal flow: submit, accept,        *)
(* check in, check out.  It records which stay came from which booking.    *)
(***************************************************************************)
\* createBooking calls of the internal form: <<kennelId, data>>
CapForms ==
    {<<KENNEL_ID, [checkIn |-> 2, checkOut |-> 4, catCount |-> 4]>>,
     <<KENNEL_ID, [checkIn |-> 2, checkOut |-> 4]>>,
     <<KENNEL_ID, [checkIn |-> 3, checkOut |-> 2, catCount |-> 4]>>,
     <<OtherKennel, [checkIn |-> 2, checkOut |-> 4, catCount |-> 4]>>}

\* owner form submissions
CapPayloads == {[checkIn |-> 2, checkOut |-> 4, catCount |-> "-3"]}

CapCreateBooking ==
    \E form \in CapForms :
        /\ Len(bookings) < CapBookings
        /\ CreateBooking(form[1], form[2])
        /\ NoHistory

CapCreateBookingRequest ==
    \E payload \in CapPayloads :
        /\ Len(bookings) < CapBookings
        /\ CreateBookingRequest(payload, KENNEL_ID)
        /\ NoHistory

CapAcceptBooking ==
    \E id \in StoredBookingIds :
        /\ AcceptBooking(id)
        /\ NoHistory

\* the kennel checks in an accepted booking
CapCreateCheckinFromBooking ==
    \E i \in 1..Len(bookings) :
        /\ Len(checkins) < MaxCheckins
        /\ bookings[i].status = "precheck"
        /\ CreateCheckinFromBooking(bookings[i], NoOverrides)
        /\ conv' = conv \cup {<<FindIndex(bookings, bookings[i].id), Len(checkins')>>}
        /\ UNCHANGED <<tasks, savedFor, out, last>>

CapCheckOutCheckin ==
    \E id \in StoredCheckinIds :
        /\ CheckOutCheckin(id)
        /\ NoHistory

NextCapacity ==
    \/ CapCreateBooking
    \/ CapCreateBookingRequest
    \/ CapAcceptBooking
    \/ CapCreateCheckinFromBooking
    \/ CapCheckOutCheckin

SpecCapacity == Init /\ [][NextCapacity]_vars

(***************************************************************************)
(* Profile specification: profiles of two tenants saved in any order.      *)
(***************************************************************************)
ProfileArgs ==
    {Spread([id |-> k, name |-> n], opt) :
        k \in Kennels,
        n \in {"Annisse Kattepension", "Kattehotellet"},
        opt \in {<<>>,
                 [tagline |-> "Ro og naervaer"],
                 [nightlyRate |-> "400"],
                 [nightlyRate |-> "NaN"],
                 [tagline |-> "Ro og naervaer", nightlyRate |-> "400"]}}

DoSaveKennelProfile ==
    \E p \in ProfileArgs :
        /\ SaveKennelProfile(p)
        /\ savedFor' = [k \in (DOMAIN savedFor) \cup {p.id} |->
                            IF k = p.id THEN p ELSE savedFor[k]]
        /\ UNCHANGED <<tasks, conv, out, last>>

NextProfile == DoSaveKennelProfile

SpecProfile == Init /\ [][NextProfile]_vars

(***************************************************************************)
(* Cage specification: two tenants create, edit and delete cages, by       *)
(* generated id and by an id the caller supplies.                          *)
(***************************************************************************)
StoredCageIds == {cages[i].id : i \in 1..Len(cages)}

\* an id the caller made up
OwnCageId == <<"x", 1>>

\* cage ids a caller can pass: those of stored cages and one of their own
CageIdArgs == StoredCageIds \cup {OwnCageId}

\* cage arguments: a new cage, and an edit of (or a cage with) a given id
CageArgs ==
    {[name |-> "Bur A"], [name |-> "Bur B", size |-> "stor"]}
    \cup {[id |-> id, name |-> "Bur C"] : id \in CageIdArgs}

DoUpsertCage ==
    \E k \in Kennels, cage \in CageArgs :
        /\ Len(cages) < MaxCages
        /\ "id" \in DOMAIN cage \/ clock["g"] < MaxCageIds
        /\ UpsertCage(k, cage)
        /\ NoHistory

DoDeleteCage ==
    \E k \in Kennels, id \in CageIdArgs :
        /\ DeleteCage(k, id)
        /\ NoHistory

NextCages ==
    \/ DoUpsertCage
    \/ DoDeleteCage

SpecCages == Init /\ [][NextCages]_vars

(***************************************************************************)
(* Lookup specification: the operations that look a record up by id,       *)
(* called with stored ids and with an id no record has, on a store that    *)
(* holds bookings, stays, a cage and a profile.                            *)
(***************************************************************************)
\* the id recorded for a call that takes none
NoId == <<"-", 0>>

\* a step of the lookup specification records the call when the id passed is
\* one no record has
Looked(op, id) ==
    /\ last' = IF id = UnknownId THEN [op |-> op, id |-> id]
               ELSE [op |-> "other", id |-> NoId]
    /\ UNCHANGED <<tasks, conv, savedFor, out>>

LkCreateBooking ==
    \E data \in FormData :
        /\ Len(bookings) < LkBookings
        /\ CreateBooking(KENNEL_ID, data)
        /\ Looked("createBooking", NoId)

LkCreateCheckinFromBooking ==
    \E i \in 1..Len(bookings) :
        /\ Len(checkins) < LkCheckins
        /\ CreateCheckinFromBooking(bookings[i], NoOverrides)
        /\ Looked("createCheckinFromBooking", NoId)

LkUpsertCage ==
    /\ cages = <<>>
    /\ UpsertCage(KENNEL_ID, [name |-> "Bur A"])
    /\ Looked("upsertCage", NoId)

LkSaveKennelProfile ==
    /\ profile = <<>>
    /\ SaveKennelProfile([id |-> KENNEL_ID, name |-> "Kattehotellet"])
    /\ Looked("saveKennelProfile", NoId)

LkSetBookingStatus ==
    \E id \in StoredBookingIds \cup {UnknownId}, st \in {"pending", "converted"} :
        /\ SetBookingStatus(id, st)
        /\ Looked("setBookingStatus", id)

LkAcceptBooking ==
    \E id \in StoredBookingIds \cup {UnknownId} :
        /\ AcceptBooking(id)
        /\ Looked("acceptBooking", id)

LkCancelBooking ==
    \E id \in StoredBookingIds \cup {UnknownId} :
        /\ CancelBooking(id)
        /\ Looked("cancelBooking", id)

LkCheckOutCheckin ==
    \E id \in StoredCheckinIds \cup {UnknownId} :
        /\ CheckOutCheckin(id)
        /\ Looked("checkOutCheckin", id)

LkAssignCageToCheckin ==
    \E id \in StoredCheckinIds \cup {UnknownId}, cageId \in CageIds :
        /\ AssignCageToCheckin(id, cageId)
        /\ Looked("assignCageToCheckin", id)

NextLookups ==
    \/ LkCreateBooking
    \/ LkCreateCheckinFromBooking
    \/ LkUpsertCage
    \/ LkSaveKennelProfile
    \/ LkSetBookingStatus
    \/ LkAcceptBooking
    \/ LkCancelBooking
    \/ LkCheckOutCheckin
    \/ LkAssignCageToCheckin

SpecLookups == Init /\ [][NextLookups]_vars

(***************************************************************************)
(* Storage specification: every mutating operation on a browser whose      *)
(* localStorage refuses writes to some keys (the quota is reached for the  *)
(* value being written); which keys it refuses changes between calls.      *)
(***************************************************************************)
\* the sets of keys whose setItem throws
FullSets ==
    {{}, {BOOKING_KEY}, {CHECKIN_KEY}, StorageKeys}

\* a step of the storage specification records a createCheckinFromBooking call
Stored(op) ==
    /\ last' = IF op = "createCheckinFromBooking"
               THEN [op |-> op, full |-> storage.full]
               ELSE [op |-> "other", full |-> {}]
    /\ UNCHANGED <<tasks, conv, savedFor, out>>

\* the quota situation changes (other data is written or removed)
StQuota ==
    \E keys \in FullSets :
        /\ storage' = [storage EXCEPT !.full = keys]
        /\ UNCHANGED <<bookings, checkins, cages, profile, clock>>
        /\ Stored("quota")

StCreateBooking ==
    \E data \in FormData :
        /\ clock["b"] < StIds
        /\ CreateBooking(KENNEL_ID, data)
        /\ Stored("createBooking")

StCreateBookingRequest ==
    \E payload \in OwnerPayloads :
        /\ clock["b"] < StIds
        /\ CreateBookingRequest(payload, KENNEL_ID)
        /\ Stored("createBookingRequest")

StUpdateBooking ==
    \E i \in 1..Len(bookings) :
        /\ UpdateBooking(Spread(bookings[i], [status |-> "cancelled"]))
        /\ Stored("updateBooking")

StSetBookingStatus ==
    \E id \in StoredBookingIds :
        /\ SetBookingStatus(id, "pending")
        /\ Stored("setBookingStatus")

StAcceptBooking ==
    \E id \in StoredBookingIds :
        /\ AcceptBooking(id)
        /\ Stored("acceptBooking")

StCancelBooking ==
    \E id \in StoredBookingIds :
        /\ CancelBooking(id)
        /\ Stored("cancelBooking")

StCreateCheckinFromBooking ==
    \E i \in 1..Len(bookings) :
        /\ clock["c"] < StIds
        /\ CreateCheckinFromBooking(bookings[i], NoOverrides)
        /\ Stored("createCheckinFromBooking")

StUpdateCheckin ==
    \E i \in 1..Len(checkins), st \in StayStatuses :
        /\ UpdateCheckin(Spread(checkins[i], [status |-> st]))
        /\ Stored("updateCheckin")

StCheckOutCheckin ==
    \E id \in StoredCheckinIds :
        /\ CheckOutCheckin(id)
        /\ Stored("checkOutCheckin")

StAssignCageToCheckin ==
    \E id \in StoredCheckinIds, cageId \in {"g1"} :
        /\ AssignCageToCheckin(id, cageId)
        /\ Stored("assignCageToCheckin")

StUpsertCage ==
    \E cage \in {[name |-> "Bur A"]} \cup {[id |-> id, name |-> "Bur C"] : id \in StoredCageIds} :
        /\ "id" \in DOMAIN cage \/ clock["g"] < StIds
        /\ UpsertCage(KENNEL_ID, cage)
        /\ Stored("upsertCage")

StDeleteCage ==
    \E id \in StoredCageIds :
        /\ DeleteCage(KENNEL_ID, id)
        /\ Stored("deleteCage")

StSaveKennelProfile ==
    \E name \in {"Kattehotellet"} :
        /\ SaveKennelProfile([id |-> KENNEL_ID, name |-> name])
        /\ Stored("saveKennelProfile")

NextStorage ==
    \/ StQuota
    \/ StCreateBooking
    \/ StCreateBookingRequest
    \/ StUpdateBooking
    \/ StSetBookingStatus
    \/ StAcceptBooking
    \/ StCancelBooking
    \/ StCreateCheckinFromBooking
    \/ StUpdateCheckin
    \/ StCheckOutCheckin
    \/ StAssignCageToCheckin
    \/ StUpsertCage
    \/ StDeleteCage
    \/ StSaveKennelProfile

SpecStorage == Init /\ [][NextStorage]_vars

(***************************************************************************)
(* Stay specification: stays are created from bookings, edited, given a    *)
(* cage and checked out; it records which stays checkOutCheckin checked    *)
(* out.                                                                    *)
(***************************************************************************)
SyCreateBooking ==
    \E data \in FormData :
        /\ Len(bookings) < MaxBookings
        /\ CreateBooking(KENNEL_ID, data)
        /\ NoHistory

SyAcceptBooking ==
    \E id \in StoredBookingIds :
        /\ AcceptBooking(id)
        /\ NoHistory

SyCancelBooking ==
    \E id \in StoredBookingIds :
        /\ CancelBooking(id)
        /\ NoHistory

SyCreateCheckinFromBooking ==
    \E i \in 1..Len(bookings) :
        /\ Len(checkins) < MaxCheckins
        /\ CreateCheckinFromBooking(bookings[i], NoOverrides)
        /\ NoHistory

\* a copy of a stored stay, as loaded earlier or edited, saved back
SyUpdateCheckin ==
    \E i \in 1..Len(checkins), st \in StayStatuses :
        /\ UpdateCheckin(Spread(checkins[i], [status |-> st]))
        /\ NoHistory

SyAssignCageToCheckin ==
    \E id \in StoredCheckinIds, cageId \in CageIds :
        /\ AssignCageToCheckin(id, cageId)
        /\ NoHistory

SyCheckOutCheckin ==
    \E id \in StoredCheckinIds :
        /\ CheckOutCheckin(id)
        /\ out' = out \cup {FindIndex(checkins, id)}
        /\ UNCHANGED <<tasks, conv, savedFor, last>>

NextStays ==
    \/ SyCreateBooking
    \/ SyAcceptBooking
    \/ SyCancelBooking
    \/ SyCreateCheckinFromBooking
    \/ SyUpdateCheckin
    \/ SyAssignCageToCheckin
    \/ SyCheckOutCheckin

SpecStays == Init /\ [][NextStays]_vars

(***************************************************************************)
(* Async specification.  The exported operations are async functions: a    *)
(* call runs without interruption up to its first await, and other calls   *)
(* run only while it waits.  createCheckinFromBooking has one await, on    *)
(* the promise of setBookingStatus, whose body has run when the await is   *)
(* reached; getCapacityForRange awaits the two list calls, whose loads     *)
(* have run by then; hasCapacityForBooking awaits getCapacityForRange.     *)
(* The other operations have no await before they return.  Calls are       *)
(* started while others are in flight and resumed in any order.  A booking *)
(* is accepted once, while pending.                                        *)
(***************************************************************************)
\* the queried range and the candidate of the capacity calls
AsRange == [from |-> 2, to |-> 4]

AsCandidate == [checkIn |-> 2, checkOut |-> 4, catCount |-> 4]

\* createCheckinFromBooking up to its await: both writes have run
CheckinCall(booking, overrides) ==
    [op |-> "createCheckinFromBooking", booking |-> booking.id,
     record |-> CheckinRecord(booking, overrides)]

\* getCapacityForRange up to its await: both arrays are loaded and filtered
CapacityCall(op, kennelId) ==
    [op |-> op,
     kennelId |-> kennelId,
     bookings |-> listBookingsForKennel(LoadArray(bookings), kennelId),
     checkins |-> listCheckinsForKennel(LoadArray(checkins), kennelId)]

\* what a resumed getCapacityForRange returns, for a host in `zone`
CapacityReturn(t, zone) ==
    CapacityOver(t.bookings, t.checkins, zone, t.kennelId, AsRange.from, AsRange.to)

\* what a resumed hasCapacityForBooking returns, for a host in `zone`
HasCapacityReturn(t, zone) ==
    LET days == CapacityOver(t.bookings, t.checkins, zone, t.kennelId,
                             AsCandidate.checkIn, AsCandidate.checkOut)
    IN  \A i \in 1..Len(days) : days[i].booked + CountOf(AsCandidate) <= days[i].capacity

AsQuiet == UNCHANGED <<conv, savedFor, out, last>>

AsCreateBooking ==
    \E data \in FormData :
        /\ Len(bookings) < AsRecords
        /\ CreateBooking(KENNEL_ID, data)
        /\ UNCHANGED tasks /\ AsQuiet

AsAcceptBooking ==
    \E i \in 1..Len(bookings) :
        /\ bookings[i].status = "pending"
        /\ AcceptBooking(bookings[i].id)
        /\ UNCHANGED tasks /\ AsQuiet

AsCancelBooking ==
    \E id \in StoredBookingIds :
        /\ CancelBooking(id)
        /\ UNCHANGED tasks /\ AsQuiet

AsCheckOutCheckin ==
    \E id \in StoredCheckinIds :
        /\ CheckOutCheckin(id)
        /\ UNCHANGED tasks /\ AsQuiet

\* createCheckinFromBooking is called and runs up to its await
AsStartCheckin ==
    \E i \in 1..Len(bookings) :
        /\ Len(checkins) < AsRecords
        /\ Cardinality(tasks) < AsTasks
        /\ bookings[i].status = "precheck"
        /\ CreateCheckinFromBooking(bookings[i], NoOverrides)
        /\ tasks' = tasks \cup {CheckinCall(bookings[i], NoOverrides)}
        /\ conv' = conv \cup {<<i, Len(checkins')>>}
        /\ UNCHANGED <<savedFor, out, last>>

\* getCapacityForRange or hasCapacityForBooking is called and runs up to its await
AsStartCapacity ==
    \E op \in {"getCapacityForRange", "hasCapacityForBooking"} :
        /\ Cardinality(tasks) < AsTasks
        /\ tasks' = tasks \cup {CapacityCall(op, KENNEL_ID)}
        /\ UNCHANGED <<storage, bookings, checkins, cages, profile, clock>>
        /\ AsQuiet

\* a call in flight is resumed and returns
AsReturn ==
    \E t \in tasks :
        /\ tasks' = tasks \ {t}
        /\ UNCHANGED <<storage, bookings, checkins, cages, profile, clock>>
        /\ AsQuiet

NextAsync ==
    \/ AsCreateBooking
    \/ AsAcceptBooking
    \/ AsCancelBooking
    \/ AsCheckOutCheckin
    \/ AsStartCheckin
    \/ AsStartCapacity
    \/ AsReturn

SpecAsync == Init /\ [][NextAsync]_vars

(***************************************************************************)
(* Gate specification: bookings are submitted with the default status, and *)
(* a pending booking is accepted only right after hasCapacityForBooking    *)
(* returned true for it; accepted bookings are checked in once, stays are  *)
(* checked out, bookings are cancelled.  Cat counts are 1 or more.         *)
(***************************************************************************)
\* what the internal form submits: <<kennelId, data>>
GtForms ==
    {<<KENNEL_ID, [checkIn |-> 2, checkOut |-> 4, catCount |-> 4]>>,
     <<KENNEL_ID, [checkIn |-> 3, checkOut |-> 5, catCount |-> 3]>>,
     <<KENNEL_ID, [checkIn |-> 1, checkOut |-> 3]>>}

\* what the owner form submits
GtPayloads == {[checkIn |-> 3, checkOut |-> 4, catCount |-> "2"]}

GtCreateBooking ==
    \E form \in GtForms :
        /\ Len(bookings) < GtBookings
        /\ CreateBooking(form[1], form[2])
        /\ NoHistory

GtCreateBookingRequest ==
    \E payload \in GtPayloads :
        /\ Len(bookings) < GtBookings
        /\ CreateBookingRequest(payload, KENNEL_ID)
        /\ NoHistory

\* the kennel asks the gate about a stored pending booking and accepts it
\* when the answer is true
GtAcceptBooking ==
    \E i \in 1..Len(bookings), zone \in HostZones :
        /\ bookings[i].status = "pending"
        /\ hasCapacityForBooking(zone, bookings[i].kennelId, bookings[i])
        /\ AcceptBooking(bookings[i].id)
        /\ NoHistory

GtCancelBooking ==
    \E id \in StoredBookingIds :
        /\ CancelBooking(id)
        /\ NoHistory

GtCreateCheckinFromBooking ==
    \E i \in 1..Len(bookings) :
        /\ bookings[i].status = "precheck"
        /\ CreateCheckinFromBooking(bookings[i], NoOverrides)
        /\ NoHistory

GtCheckOutCheckin ==
    \E id \in StoredCheckinIds :
        /\ CheckOutCheckin(id)
        /\ NoHistory

NextGate ==
    \/ GtCreateBooking
    \/ GtCreateBookingRequest
    \/ GtAcceptBooking
    \/ GtCancelBooking
    \/ GtCreateCheckinFromBooking
    \/ GtCheckOutCheckin

SpecGate == Init /\ [][NextGate]_vars

(***************************************************************************)
(* Tenant specification: two tenants submit, accept, check in and check    *)
(* out reservations for the same days.                                     *)
(***************************************************************************)
\* createBooking calls: <<kennelId, data>>
TnForms ==
    {<<k, [checkIn |-> 2, checkOut |-> 4, catCount |-> 4]>> : k \in Kennels}

TnCreateBooking ==
    \E form \in TnForms :
        /\ Len(bookings) < TnBookings
        /\ CreateBooking(form[1], form[2])
        /\ NoHistory

TnCreateBookingRequest ==
    \E payload \in OwnerPayloads, k \in Kennels :
        /\ Len(bookings) < TnBookings
        /\ CreateBookingRequest(payload, k)
        /\ NoHistory

TnAcceptBooking ==
    \E id \in StoredBookingIds :
        /\ AcceptBooking(id)
        /\ NoHistory

TnCreateCheckinFromBooking ==
    \E i \in 1..Len(bookings) :
        /\ Len(checkins) < TnBookings
        /\ bookings[i].status = "precheck"
        /\ CreateCheckinFromBooking(bookings[i], NoOverrides)
        /\ NoHistory

TnCheckOutCheckin ==
    \E id \in StoredCheckinIds :
        /\ CheckOutCheckin(id)
        /\ NoHistory

NextTenants ==
    \/ TnCreateBooking
    \/ TnCreateBookingRequest
    \/ TnAcceptBooking
    \/ TnCreateCheckinFromBooking
    \/ TnCheckOutCheckin

SpecTenants == Init /\ [][NextTenants]_vars

(***************************************************************************)
(* Claims                                                                  *)
(***************************************************************************)
\* the booked count getCapacityForRange reports for a date it returns
BookedOn(ball, call, kennelId, date) ==
    CapacityDay(listBookingsForKennel(ball, kennelId),
                listCheckinsForKennel(call, kennelId), date).booked

\* `booked` before the cap, for a tenant and a date
SumOn(ball, call, kennelId, date) ==
    BookedSum(listBookingsForKennel(ball, kennelId),
              listCheckinsForKennel(call, kennelId), date)

\* the sequence without its i-th element
Without(seq, i) == SubSeq(seq, 1, i - 1) \o SubSeq(seq, i + 1, Len(seq))

\* C1: on no day are a converted booking and the stay created from it both
\* counted by getCapacityForRange (the reservation is counted at most once).
NoDoubleCounting ==
    \A pair \in conv : \A d \in Days :
        ~(/\ BookingCount(bookings[pair[1]], d) # 0
          /\ StayCount(checkins[pair[2]], d) # 0)

\* candidate bookings passed to hasCapacityForBooking
Candidates ==
    {Spread([checkIn |-> ci, checkOut |-> co], opt) :
        ci \in 0..LastDay, co \in 0..LastDay, opt \in {<<>>, [catCount |-> 4]}}

\* C2: hasCapacityForBooking is false when a date is missing, and otherwise
\* true exactly when on every day the candidate occupies (checkIn <= d <
\* checkOut) the booked count plus its cat count stays within the capacity.
GateChecksOccupiedDays ==
    \A zone \in HostZones, k \in Kennels, b \in Candidates :
        hasCapacityForBooking(zone, k, b) =
            IF b.checkIn = 0 \/ b.checkOut = 0 THEN FALSE
            ELSE \A d \in Days :
                    (b.checkIn <= d /\ d < b.checkOut) =>
                        BookedOn(bookings, checkins, k, d) + CountOf(b)
                            <= FIXED_DAILY_CAPACITY

\* C3: every CapacityDay returned has capacity 6 and 0 <= free <= capacity.
FreeWithinCapacity ==
    \A zone \in HostZones, k \in Kennels, s \in Days, e \in Days :
        LET days == getCapacityForRange(zone, k, s, e)
        IN  \A i \in 1..Len(days) :
                /\ days[i].capacity = 6
                /\ 0 <= days[i].free
                /\ days[i].free <= days[i].capacity

\* C4: createCheckinFromBooking on a stored accepted (precheck) booking,
\* without overrides, leaves that booking "converted", appends exactly one
\* stay with status "checked_in", and changes no other booking or stay.
ConvertLeavesConverted ==
    [][\A i \in 1..Len(bookings) :
          (/\ bookings[i].status = "precheck"
           /\ CreateCheckinFromBooking(bookings[i], NoOverrides))
          => /\ bookings' = [bookings EXCEPT ![i] =
                                Spread(bookings[i], [status |-> "converted"])]
             /\ Len(checkins') = Len(checkins) + 1
             /\ SubSeq(checkins', 1, Len(checkins)) = checkins
             /\ checkins'[Len(checkins')].status = "checked_in"]_vars

\* C4 witness: an accepted booking was converted while another booking is
\* stored: it is "converted" and its stay is "checked_in".
ConvertedWitness ==
    /\ Len(bookings) >= 2
    /\ \E pair \in conv :
          /\ bookings[pair[1]].status = "converted"
          /\ checkins[pair[2]].status = "checked_in"

\* a stay the calculator treats as checked out
IsCheckedOut(stay) == stay.status = "checked_out" \/ stay.status = "checkedOut"

\* C5 (first part, and the amended claim's first part): a stay stored as
\* checked_out changes no CapacityDay: with it or without it every day is the same.
CheckedOutCountsNothing ==
    \A j \in 1..Len(checkins) :
        checkins[j].status = "checked_out" =>
            \A k \in Kennels, d \in Days :
                CapacityDay(listBookingsForKennel(bookings, k),
                            listCheckinsForKennel(checkins, k), d)
                = CapacityDay(listBookingsForKennel(bookings, k),
                              listCheckinsForKennel(Without(checkins, j), k), d)

\* C5 as stated: a checked_out stay contributes 0 to every day, and
\* checkOutCheckin on an active stay lowers the booked count reported for each
\* day of the stay's interval by that stay's cat count.  (Stated for the
\* states in which no reservation is counted twice, so that it is judged
\* apart from C1.)
CheckOutLowersBooked ==
    /\ []CheckedOutCountsNothing
    /\ [][\A j \in 1..Len(checkins) :
            (/\ NoDoubleCounting
             /\ ~IsCheckedOut(checkins[j])
             /\ FindIndex(checkins, checkins[j].id) = j
             /\ CheckOutCheckin(checkins[j].id))
            => \A d \in Days :
                  overlapsDay(checkins[j].checkIn, checkins[j].checkOut, d) =>
                      BookedOn(bookings', checkins', checkins[j].kennelId, d)
                      = BookedOn(bookings, checkins, checkins[j].kennelId, d)
                        - CountOf(checkins[j])]_vars

\* C5 amended: a checked_out stay contributes 0 to every day, and
\* checkOutCheckin on an active stay lowers the sum that is capped into the
\* booked count, on each day of the stay's interval, by that stay's cat count.
CheckOutLowersSum ==
    /\ []CheckedOutCountsNothing
    /\ [][\A j \in 1..Len(checkins) :
            (/\ ~IsCheckedOut(checkins[j])
             /\ FindIndex(checkins, checkins[j].id) = j
             /\ CheckOutCheckin(checkins[j].id))
            => \A d \in Days :
                  overlapsDay(checkins[j].checkIn, checkins[j].checkOut, d) =>
                      SumOn(bookings', checkins', checkins[j].kennelId, d)
                      = SumOn(bookings, checkins, checkins[j].kennelId, d)
                        - CountOf(checkins[j])]_vars

\* C5 witness: a stay of 4 cats was checked out on days whose sum was above
\* the capacity before: another 4 cats are still counted on day 2.
CheckedOutWitness ==
    \E j \in 1..Len(checkins) :
        /\ checkins[j].status = "checked_out"
        /\ CountOf(checkins[j]) = 4
        /\ overlapsDay(checkins[j].checkIn, checkins[j].checkOut, 2)
        /\ SumOn(bookings, checkins, checkins[j].kennelId, 2) = 4

\* what the i-th listed booking adds to the sum of a day
BookingShare(k, i, d) ==
    LET bs == listBookingsForKennel(bookings, k)
        stays == listCheckinsForKennel(checkins, k)
    IN  BookedSum(bs, stays, d) - BookedSum(Without(bs, i), stays, d)

\* what the j-th listed stay adds to the sum of a day
StayShare(k, j, d) ==
    LET bs == listBookingsForKennel(bookings, k)
        stays == listCheckinsForKennel(checkins, k)
    IN  BookedSum(bs, stays, d) - BookedSum(bs, Without(stays, j), d)

\* C6: a stay that is not checked out, or a precheck booking, adds its cat
\* count to day d exactly when checkIn <= d < checkOut, and nothing otherwise.
HalfOpenInterval ==
    \A k \in Kennels, d \in 1..(LastDay + 1) :
        /\ \A i \in 1..Len(listBookingsForKennel(bookings, k)) :
              LET b == listBookingsForKennel(bookings, k)[i]
              IN  b.status = "precheck" =>
                    BookingShare(k, i, d) =
                        IF b.checkIn <= d /\ d < b.checkOut THEN CountOf(b) ELSE 0
        /\ \A j \in 1..Len(listCheckinsForKennel(checkins, k)) :
              LET c == listCheckinsForKennel(checkins, k)[j]
              IN  ~IsCheckedOut(c) =>
                    StayShare(k, j, d) =
                        IF c.checkIn <= d /\ d < c.checkOut THEN CountOf(c) ELSE 0

\* C6 witness: a precheck booking for days 2..4 is counted on days 2 and 3 and
\* not on day 4, next to a counting stay and a precheck booking whose
\* check-out is before its check-in.
HalfOpenWitness ==
    /\ \E i \in 1..Len(bookings) :
          /\ bookings[i].status = "precheck"
          /\ bookings[i].checkIn = 2 /\ bookings[i].checkOut = 4
          /\ BookingCount(bookings[i], 2) # 0
          /\ BookingCount(bookings[i], 3) # 0
          /\ BookingCount(bookings[i], 4) = 0
    /\ \E i \in 1..Len(bookings) :
          /\ bookings[i].status = "precheck"
          /\ bookings[i].checkOut <= bookings[i].checkIn
    /\ \E j \in 1..Len(checkins) : checkins[j].status = "checked_in"

\* the CapacityDay the claim gives for a date
ExpectedDay(k, d) ==
    LET sum == SumOn(bookings, checkins, k, d)
        booked == IF sum <= FIXED_DAILY_CAPACITY THEN sum ELSE FIXED_DAILY_CAPACITY
    IN  [date |-> d, booked |-> booked, capacity |-> FIXED_DAILY_CAPACITY,
         free |-> FIXED_DAILY_CAPACITY - booked]

\* C7: getCapacityForRange returns one CapacityDay per calendar day of
\* [start, end], ascending (none when start > end), each with booked = the
\* capped sum of the counting records and free = capacity - booked.
OneDayPerDate ==
    \A zone \in HostZones, k \in Kennels, s \in Days, e \in Days :
        getCapacityForRange(zone, k, s, e) =
            [i \in 1..(IF s > e THEN 0 ELSE e - s + 1) |-> ExpectedDay(k, s + i - 1)]

\* numbers JSON cannot write
NotFinite == {"NaN", "Infinity", "-Infinity"}

\* the object the round trip promises for a saved profile p
RoundTripOf(p) ==
    [f \in (DOMAIN DEFAULT_PROFILE) \cup (DOMAIN p) |->
        IF f \in DOMAIN p THEN p[f] ELSE DEFAULT_PROFILE[f]]

\* C8 as stated: for every profile p, right after saveKennelProfile(p),
\* loadKennelProfile(p.id) has p's value in every field p sets and the
\* default's value in every other field.
ProfileRoundTrip ==
    [][\A p \in ProfileArgs :
          SaveKennelProfile(p) => loadKennelProfile(p.id)' = RoundTripOf(p)]_vars

\* C8 amended: the same for every profile p whose numeric fields are finite
\* numbers (JSON writes NaN and the infinities as null).
FiniteProfileRoundTrip ==
    [][\A p \in ProfileArgs :
          (/\ \A f \in (DOMAIN p) \cap NumberFields : p[f] \notin NotFinite
           /\ SaveKennelProfile(p))
          => loadKennelProfile(p.id)' = RoundTripOf(p)]_vars

\* C8 witness: a saved profile that sets a name and a rate of its own and no
\* tagline is loaded with its name and rate and the default tagline.
RoundTripWitness ==
    /\ profile # <<>>
    /\ profile[1] \in ProfileArgs
    /\ "tagline" \notin DOMAIN profile[1]
    /\ loadKennelProfile(profile[1].id).name = "Kattehotellet"
    /\ loadKennelProfile(profile[1].id).nightlyRate = "400"
    /\ loadKennelProfile(profile[1].id).tagline = DEFAULT_PROFILE.tagline

\* C9: after saveKennelProfile(p) for a tenant, saves for other tenants leave
\* loadKennelProfile of that tenant returning p's saved fields.
OneProfilePerTenant ==
    \A k \in DOMAIN savedFor :
        \A f \in DOMAIN savedFor[k] :
            loadKennelProfile(k)[f] = JsonValue(f, savedFor[k][f])

\* the stay the last createCheckinFromBooking step stored
NewStay == checkins[Len(checkins)]

\* C10 as stated: whatever the booking and the overrides,
\* createCheckinFromBooking stores one more stay that copies the booking's
\* fields, has a new id (not the booking's, not a stored stay's), status
\* "checked_in" and cageId null.
CheckinForcesFields ==
    [][\A b \in BookingArgs, ov \in OverridesArgs :
          CreateCheckinFromBooking(b, ov) =>
            /\ Len(checkins') = Len(checkins) + 1
            /\ SubSeq(checkins', 1, Len(checkins)) = checkins
            /\ \A f \in (DOMAIN b) \ {"id", "status"} : NewStay'[f] = b[f]
            /\ NewStay'.id # b.id
            /\ NewStay'.id \notin StoredCheckinIds
            /\ NewStay'.status = "checked_in"
            /\ NewStay'.cageId = Null]_vars

\* C10 amended: createCheckinFromBooking stores one more stay in which every
\* field the overrides set has the overrides' value, and otherwise the id is
\* new (not the booking's, not a stored stay's), the status is "checked_in",
\* cageId is null and every other field is the booking's.
CheckinOverridesWin ==
    [][\A b \in BookingArgs, ov \in OverridesArgs :
          CreateCheckinFromBooking(b, ov) =>
            /\ Len(checkins') = Len(checkins) + 1
            /\ SubSeq(checkins', 1, Len(checkins)) = checkins
            /\ DOMAIN NewStay' = (DOMAIN b) \cup {"id", "status", "cageId"} \cup (DOMAIN ov)
            /\ \A f \in DOMAIN NewStay' :
                  IF f \in DOMAIN ov THEN NewStay'[f] = ov[f]
                  ELSE IF f = "id"
                       THEN NewStay'.id # b.id /\ NewStay'.id \notin StoredCheckinIds
                  ELSE IF f = "status" THEN NewStay'.status = "checked_in"
                  ELSE IF f = "cageId" THEN NewStay'.cageId = Null
                  ELSE NewStay'[f] = b[f]]_vars

\* C10 witness: the last call was createCheckinFromBooking with overrides of
\* status and cage, next to an earlier stay: the new stay has a new id and
\* the overrides' status and cage.
OverridesWitness ==
    /\ last.op = "createCheckinFromBooking"
    /\ DOMAIN last.overrides = {"status", "cageId"}
    /\ Len(checkins) = 2
    /\ NewStay.id # checkins[1].id
    /\ NewStay.status = "checked_out"
    /\ NewStay.cageId = "g1"

\* C11: upsertCage(k, cage) and deleteCage(k, id) leave every stored cage of
\* another tenant as it is: what listCagesForKennel(j) returns for j # k is
\* unchanged, whatever cage id is passed.
CagesScopedToTenant ==
    [][\A k \in Kennels :
          (\/ \E cage \in CageArgs : UpsertCage(k, cage)
           \/ \E id \in CageIdArgs : DeleteCage(k, id))
          => \A j \in Kennels \ {k} :
                listCagesForKennel(cages', j) = listCagesForKennel(cages, j)]_vars

\* the four collections are as they were
StoresUnchanged == UNCHANGED <<bookings, checkins, cages, profile>>

\* ids a caller can pass to the lookups
LookupIds == StoredBookingIds \cup StoredCheckinIds \cup {UnknownId}

\* C12: when no stored booking has the id, setBookingStatus, acceptBooking and
\* cancelBooking return null; when no stored stay has the id,
\* assignCageToCheckin returns null and checkOutCheckin returns; and each of
\* these calls leaves the booking, stay, cage and profile collections as they were.
LookupMissChangesNothing ==
    [][\A id \in LookupIds :
          /\ id \notin StoredBookingIds =>
                /\ \A st \in BookingStatuses :
                      SetBookingStatus(id, st) =>
                          StoresUnchanged /\ SetBookingStatusReturn(id, st) = Null
                /\ AcceptBooking(id) => StoresUnchanged /\ AcceptBookingReturn(id) = Null
                /\ CancelBooking(id) => StoresUnchanged /\ CancelBookingReturn(id) = Null
          /\ id \notin StoredCheckinIds =>
                /\ \A cageId \in CageIds :
                      AssignCageToCheckin(id, cageId) =>
                          StoresUnchanged /\ AssignCageToCheckinReturn(id, cageId) = Null
                /\ CheckOutCheckin(id) =>
                      StoresUnchanged /\ CheckOutCheckinReturn(id) = "undefined"]_vars

\* C12 witness: assignCageToCheckin was just called with an id no stay has,
\* on a store that holds bookings, stays, a cage and a profile.
LookupMissWitness ==
    /\ last.op = "assignCageToCheckin"
    /\ last.id \notin StoredCheckinIds
    /\ Len(bookings) >= 1 /\ Len(checkins) >= 1
    /\ cages # <<>> /\ profile # <<>>

\* the write of this key throws
Fails(key) == key \in storage.full

\* C13: a call whose write fails leaves the collection it wrote to as it was
\* before the call; createCheckinFromBooking on a stored booking whose stay
\* write succeeds appends the stay and still updates the booking, to
\* "converted" when that write succeeds, and leaves the new stay beside the
\* booking in its old status when only that second write fails.
WriteFailuresSwallowed ==
    [][/\ storage' = storage =>
            /\ Fails(BOOKING_KEY) => bookings' = bookings
            /\ Fails(CHECKIN_KEY) => checkins' = checkins
            /\ Fails(CAGE_KEY) => cages' = cages
            /\ Fails(PROFILE_KEY) => profile' = profile
       /\ \A i \in 1..Len(bookings) :
            (/\ ~Fails(CHECKIN_KEY)
             /\ CreateCheckinFromBooking(bookings[i], NoOverrides))
            => /\ checkins' = Append(checkins, CheckinRecord(bookings[i], NoOverrides))
               /\ bookings' = IF Fails(BOOKING_KEY) THEN bookings
                              ELSE [bookings EXCEPT ![i] =
                                       Spread(bookings[i], [status |-> "converted"])]]_vars

\* C13 witness: the last call was createCheckinFromBooking while only the
\* booking key refused writes: the stay is stored and its booking is still
\* "precheck".
PartialWriteWitness ==
    /\ last.op = "createCheckinFromBooking"
    /\ last.full = {BOOKING_KEY}
    /\ Len(checkins) = 1
    /\ checkins[1].status = "checked_in"
    /\ \E i \in 1..Len(bookings) : bookings[i].status = "precheck"

\* C14: with a working store no operation removes a stored booking or
\* changes its id: every stored booking is still stored, under the same id,
\* after every step.
BookingsNeverDeleted ==
    [][/\ Len(bookings') >= Len(bookings)
       /\ \A i \in 1..Len(bookings) : bookings'[i].id = bookings[i].id]_vars

\* C14 witness: a cancelled booking and a converted booking (with its stay)
\* are both still stored.
StillStoredWitness ==
    /\ Len(bookings) = 2
    /\ \E i \in 1..2 : bookings[i].status = "cancelled"
    /\ \E i \in 1..2 :
          /\ bookings[i].status = "converted"
          /\ \E j \in 1..Len(checkins) : checkins[j].checkIn = bookings[i].checkIn
    /\ bookings[1].id # bookings[2].id

\* C15: a stay that checkOutCheckin has checked out adds nothing to the
\* booked count of any day, whatever operations follow.
CheckOutIsTerminal ==
    \A j \in out : \A d \in Days : StayCount(checkins[j], d) = 0

\* the calls in flight that hold a snapshot of the store
Snapshots ==
    {t \in tasks : t.op \in {"getCapacityForRange", "hasCapacityForBooking"}}

\* the snapshot holds the stay but not yet the conversion of its booking
Torn(t, pair) ==
    /\ \E j \in 1..Len(t.checkins) : t.checkins[j].id = checkins[pair[2]].id
    /\ \E i \in 1..Len(t.bookings) :
          /\ t.bookings[i].id = bookings[pair[1]].id
          /\ t.bookings[i].status = "precheck"

\* C16: at no point where another call can run, and in no snapshot that
\* getCapacityForRange or hasCapacityForBooking holds, is the stay of a
\* createCheckinFromBooking call written while its source booking is still
\* "precheck".
AtomicConversion ==
    \A pair \in conv :
        /\ bookings[pair[1]].status # "precheck"
        /\ \A t \in Snapshots : ~Torn(t, pair)

\* C16 witness: while a createCheckinFromBooking call is still waiting at its
\* await, a getCapacityForRange call has taken a snapshot that holds the new
\* stay and the booking as "converted", and will report the 4 cats once.
AtomicWitness ==
    \E c \in tasks, t \in Snapshots :
        /\ c.op = "createCheckinFromBooking"
        /\ t.op = "getCapacityForRange"
        /\ CapacityReturn(t, ZoneUTC)[1].booked = 4
        /\ \E j \in 1..Len(t.checkins) : t.checkins[j].id = c.record.id
        /\ \E i \in 1..Len(t.bookings) :
              /\ t.bookings[i].id = c.booking
              /\ t.bookings[i].status = "converted"

OwnRecords(all, k) ==
    LET own(r) == r.kennelId = k
    IN  SelectSeq(all, own)

\* the answer of hasCapacityForBooking on a store holding the given arrays
GateOver(ball, call, zone, k, b) ==
    IF b.checkIn = 0 \/ b.checkOut = 0 THEN FALSE
    ELSE LET days == CapacityOver(ball, call, zone, k, b.checkIn, b.checkOut)
         IN  \A i \in 1..Len(days) : days[i].booked + CountOf(b) <= days[i].capacity

\* candidates asked about in the isolation claim
IsolationCandidates ==
    {[checkIn |-> 2, checkOut |-> 4, catCount |-> 4], [checkIn |-> 1, checkOut |-> 3]}

\* C18: for each tenant k, getCapacityForRange(k, start, end) and
\* hasCapacityForBooking(k, b) are what they would be on a store holding
\* only the bookings and stays whose kennelId is k: records of other tenants,
\* whatever is done with them, change no day's booked or free count for k.
CapacityPerTenant ==
    \A zone \in HostZones, k \in Kennels :
        /\ \A s \in Days, e \in Days :
              getCapacityForRange(zone, k, s, e)
              = CapacityOver(OwnRecords(bookings, k), OwnRecords(checkins, k),
                             zone, k, s, e)
        /\ \A b \in IsolationCandidates :
              hasCapacityForBooking(zone, k, b)
              = GateOver(OwnRecords(bookings, k), OwnRecords(checkins, k), zone, k, b)

\* C18 witness: each tenant has 4 cats on day 2, one of them as a stay that
\* was checked in from an accepted booking, and each tenant's day 2 shows 4.
IsolationWitness ==
    /\ BookedOn(bookings, checkins, KENNEL_ID, 2) = 4
    /\ BookedOn(bookings, checkins, OtherKennel, 2) = 4
    /\ \E j \in 1..Len(checkins) :
          /\ checkins[j].kennelId = OtherKennel
          /\ StayCount(checkins[j], 2) = 4
    /\ hasCapacityForBooking(ZoneUTC, KENNEL_ID, [checkIn |-> 1, checkOut |-> 3])

====
